---- MODULE Spec2Model ----
(***************************************************************************)
(* Invite reconciliation engine of the invite tracker bot (src/main.py).   *)
(*                                                                         *)
(* The engine state is the two store tables (invite_data, invites), their  *)
(* copies on disk, and the per-guild invite cache.  The platform state is  *)
(* the set of live invites with their use counts, the guild members and    *)
(* their display names.  Every handler is a pure operator on an engine     *)
(* record, built from the segments that run between two awaits; an action  *)
(* applies a handler to the current state with the results of its remote   *)
(* calls (invite listings, the owner notification) as inputs.              *)
(***************************************************************************)
EXTENDS Integers, Sequences, FiniteSets, TLC

VARIABLES
    invite_data,          \* InviteManager.invite_data: str(user id) -> InviterRecord
    invites,              \* InviteManager.invites: [type, items], the Invite Registry
    guild_invite_caches,  \* InviteManager.guild_invite_caches: guild id -> (code -> uses)
    disk_invite_data,     \* content of invite_data.json
    disk_invites,         \* content of invites.json
    live,                 \* platform: code -> uses, for the invites that exist
    gone,                 \* platform: codes that existed and were deleted
    members,              \* platform: guild id -> set of user ids that are members
    display,              \* platform: user id -> current display name
    visible,              \* platform: guild id -> the bot may list the guild's invites
    guilds,               \* bot.guilds: the guilds the bot is in
    inbox,                \* gateway events delivered to the bot, not yet dispatched
    tasks,                \* the handlers suspended at an await, with their local variables
    last                  \* what the last handler execution did (observation only)

vars == <<invite_data, invites, guild_invite_caches, disk_invite_data, disk_invites,
          live, gone, members, display, visible, guilds, inbox, tasks, last>>

platform == <<live, gone, members, display, visible, guilds>>
engine == <<invite_data, invites, guild_invite_caches, disk_invite_data, disk_invites>>

----------------------------------------------------------------------------
(* Bounds of the model *)

\* an invite is used at most this many times
MaxUses == 2
\* the gateway holds at most this many undispatched events
MaxInbox == 2
\* the bot reconnects while every inviter counts less than this
MaxSuccessful == 6

----------------------------------------------------------------------------
(* The universe: users, guilds, invite codes *)

Users == {1, 2, 3}
AllGuilds == {1, 2}
Codes == {"X1", "X2", "Y1", "V1"}

\* invite.inviter of an invite without inviter is None
NoInviter == 0

\* the guild an invite code belongs to (invite.guild)
GuildOf(c) == IF c = "Y1" THEN 2 ELSE 1

\* the user who created the invite (invite.inviter); codes are unique on the
\* platform, so a code has one inviter for ever.  V1 is the guild's vanity
\* invite, which has no inviter
InviterOf(c) == IF c = "X2" THEN 2 ELSE IF c = "V1" THEN NoInviter ELSE 1

\* the owner of every guild (guild.owner)
Owner == 1

\* the members of every guild when the bot starts; a founder who leaves
\* stays away, the other users come and go
Founders == {1, 2}

\* the milestone thresholds
Milestones == {5, 10, 15, 20, 25, 30, 50}

\* str(user id): the key of invite_data and the user_id of a RecruitmentEntry
Str(u) == ToString(u)

----------------------------------------------------------------------------
(* Python dicts as functions with a finite domain *)

EmptyDict == << >>
Has(d, k) == k \in DOMAIN d
Get(d, k, default) == IF k \in DOMAIN d THEN d[k] ELSE default
Put(d, k, v) == [x \in (DOMAIN d) \cup {k} |-> IF x = k THEN v ELSE d[x]]
Del(d, k) == [x \in (DOMAIN d) \ {k} |-> d[x]]

\* json.load of a missing or corrupt file: always {}, also for invites.json
read_json_file_missing == EmptyDict

\* the registry as loaded from a missing invites.json: a dict, not a list
MissingRegistry == [type |-> "dict", items |-> << >>]
ListRegistry(items) == [type |-> "list", items |-> items]

----------------------------------------------------------------------------
(* Records of the two tables *)

\* a fresh InviterRecord
NewInviterRecord(name) ==
    [display_name |-> name,
     active_invites |-> EmptyDict,
     successful_invites |-> 0,
     recruitment_ledger |-> << >>]

\* an InviteRecord snapshot (the fields the engine reads back)
InviteEntry(code, inviter, uses) ==
    [code |-> code, inviter_id |-> inviter, uses |-> uses]

\* a RecruitmentEntry
RecruitedMember(member, code) ==
    [user_id |-> Str(member), display_name |-> display[member], invite_code |-> code]

\* an invite object as the platform reports it
InviteObj(c) == [code |-> c, uses |-> live[c], inviter |-> InviterOf(c)]

\* the codes of the records of a registry
CodesOf(items) == {items[k].code : k \in 1..Len(items)}

\* index of the first record of items with this code, 0 if none
FirstWithCode(items, code) ==
    IF code \in CodesOf(items)
    THEN CHOOSE k \in 1..Len(items) :
            /\ items[k].code = code
            /\ \A j \in 1..(k - 1) : items[j].code # code
    ELSE 0

RemoveCode(items, code) == SelectSeq(items, LAMBDA r : r.code # code)

----------------------------------------------------------------------------
(* The engine record a handler works on:                                   *)
(*   data, invites, cache  the in-memory tables and caches                 *)
(*   ddata, dinvites       invite_data.json and invites.json               *)
(*   attributed, notices   what the handler attributed and sent (observed) *)
(*   err                   the exception that left the handler, or "none"  *)

Engine ==
    [data |-> invite_data, invites |-> invites, cache |-> guild_invite_caches,
     ddata |-> disk_invite_data, dinvites |-> disk_invites,
     attributed |-> << >>, notices |-> << >>, err |-> "none"]

\* FileManager.write_json_file(INVITE_DATA_JSON, invite_data)
WriteInviteData(e) == [e EXCEPT !.ddata = e.data]

\* FileManager.write_json_file(INVITES_JSON, invites)
WriteInvites(e) == [e EXCEPT !.dinvites = e.invites]

----------------------------------------------------------------------------
(* The remote invite list of a guild: guild.invites() *)

LiveCodes(g) == {c \in DOMAIN live : GuildOf(c) = g}

\* every order in which the platform may list the live invites of g
Orders(S) ==
    {s \in [1..Cardinality(S) -> S] : \A i, j \in 1..Cardinality(S) : s[i] = s[j] => i = j}

Fetched(codeSeq) ==
    [ok |-> TRUE, exc |-> "none",
     list |-> [k \in 1..Len(codeSeq) |-> InviteObj(codeSeq[k])]]

\* the call raises discord.Forbidden
Forbidden == [ok |-> FALSE, exc |-> "Forbidden", list |-> << >>]

\* the call raises another discord.HTTPException
Failed == [ok |-> FALSE, exc |-> "HTTPException", list |-> << >>]

\* the possible results of one guild.invites() call
Listings(g) ==
    IF visible[g] THEN {Fetched(s) : s \in Orders(LiveCodes(g))} ELSE {Forbidden}

\* the same, in one fixed order (for a caller that only looks at the set of codes)
ListingSet(g) ==
    IF visible[g] THEN {Fetched(CHOOSE s \in Orders(LiveCodes(g)) : TRUE)} ELSE {Forbidden}

ListedCodes(list) == {list[k].code : k \in 1..Len(list)}

----------------------------------------------------------------------------
(* InviteManager.validate_invites *)

\* variant: prunes in memory and does not write invite_data.json
validate_invites_unsaved(e, fetch) ==
    IF ~fetch.ok
    THEN IF fetch.exc = "Forbidden" THEN e ELSE [e EXCEPT !.err = fetch.exc]
    ELSE [e EXCEPT !.data =
            [key \in DOMAIN e.data |->
                [e.data[key] EXCEPT !.active_invites =
                    [c \in (DOMAIN @) \cap ListedCodes(fetch.list) |-> @[c]]]]]

\* variant: discord.Forbidden is not caught
validate_invites_forbidden_raised(e, fetch) ==
    IF ~fetch.ok
    THEN [e EXCEPT !.err = fetch.exc]
    ELSE WriteInviteData(
            [e EXCEPT !.data =
                [key \in DOMAIN e.data |->
                    [e.data[key] EXCEPT !.active_invites =
                        [c \in (DOMAIN @) \cap ListedCodes(fetch.list) |-> @[c]]]]])

validate_invites(e, fetch) ==
    IF ~fetch.ok
    THEN IF fetch.exc = "Forbidden" THEN e ELSE [e EXCEPT !.err = fetch.exc]
    ELSE WriteInviteData(
            [e EXCEPT !.data =
                [key \in DOMAIN e.data |->
                    [e.data[key] EXCEPT !.active_invites =
                        [c \in (DOMAIN @) \cap ListedCodes(fetch.list) |-> @[c]]]]])

----------------------------------------------------------------------------
(* InviteManager.initialize_invites *)

\* one pass of the loop over the fetched invites (lines 90-128)
adopt_invite(e, g, inv, existing_codes) ==
    LET cached == [e EXCEPT !.cache[g] = Put(@, inv.code, inv.uses)]
        adopt == inv.code \notin existing_codes /\ inv.inviter # NoInviter
        key == Str(inv.inviter)
    IN  IF adopt /\ cached.invites.type # "list"
        THEN \* {}.append: AttributeError
             [cached EXCEPT !.err = "AttributeError"]
        ELSE
        LET reg == IF adopt
                   THEN [cached EXCEPT !.invites.items =
                            Append(@, InviteEntry(inv.code, inv.inviter, inv.uses))]
                   ELSE cached
        IN  IF inv.inviter = NoInviter
            THEN reg
            ELSE LET d0 == IF Has(reg.data, key)
                           THEN reg.data
                           ELSE Put(reg.data, key, NewInviterRecord(display[inv.inviter]))
                 IN  [reg EXCEPT !.data =
                        [d0 EXCEPT ![key].active_invites = Put(@, inv.code, inv.uses)]]

RECURSIVE adopt_from(_, _, _, _, _)
adopt_from(e, g, list, i, existing_codes) ==
    IF i > Len(list) \/ e.err # "none"
    THEN e
    ELSE adopt_from(adopt_invite(e, g, list[i], existing_codes), g, list, i + 1,
                    existing_codes)

\* lines 85-135: what runs once the listing of line 86 has returned fetch2
adopt_listed(e, g, fetch2) ==
    IF ~fetch2.ok
    THEN e      \* caught by "except Exception" and logged
    ELSE LET done == adopt_from(e, g, fetch2.list, 1, CodesOf(e.invites.items))
         IN  IF done.err # "none"
             THEN [done EXCEPT !.err = "none"]     \* caught and logged, no write
             ELSE WriteInvites(WriteInviteData(done))

\* line 82: the guild's cache is emptied before the first await
clear_cache(e, g) == [e EXCEPT !.cache = Put(@, g, EmptyDict)]

\* fetch1 is the listing validate_invites gets, fetch2 the one fetched at line 86
initialize_invites(e, g, fetch1, fetch2) ==
    LET validated == validate_invites(clear_cache(e, g), fetch1)
    IN  IF validated.err # "none"
        THEN validated      \* line 83 is outside the try: the exception escapes
        ELSE adopt_listed(validated, g, fetch2)

\* InviteBot.on_ready: initialize every guild of the bot, in order; fetches
\* gives the two listings of each guild
RECURSIVE initialize_all(_, _, _)
initialize_all(e, gs, fetches) ==
    IF gs = {} \/ e.err # "none"
    THEN e
    ELSE LET g == CHOOSE x \in gs : \A y \in gs : x <= y
         IN  initialize_all(initialize_invites(e, g, fetches[g][1], fetches[g][2]),
                            gs \ {g}, fetches)

on_ready(e, fetches) == initialize_all(e, guilds, fetches)

----------------------------------------------------------------------------
(* InviteBot.on_invite_create *)

on_invite_create(e, inv) ==
    IF inv.inviter = NoInviter
    THEN e
    ELSE
    LET key == Str(inv.inviter)
        d0 == IF Has(e.data, key)
              THEN e.data
              ELSE Put(e.data, key, NewInviterRecord(display[inv.inviter]))
        d1 == IF Has(d0[key].active_invites, inv.code)
              THEN d0
              ELSE [d0 EXCEPT ![key].active_invites = Put(@, inv.code, 0)]
        saved == WriteInviteData([e EXCEPT !.data = d1])
    IN  IF saved.invites.type # "list"
        THEN [saved EXCEPT !.err = "AttributeError"]
        ELSE WriteInvites(
                [saved EXCEPT !.invites.items =
                    Append(@, InviteEntry(inv.code, inv.inviter, inv.uses))])

----------------------------------------------------------------------------
(* InviteBot.on_invite_delete *)

\* FIRST: the inviter of the code, from the registry (None as NoInviter)
registered_inviter(items, code) ==
    IF FirstWithCode(items, code) = 0
    THEN NoInviter
    ELSE items[FirstWithCode(items, code)].inviter_id

\* SECOND: remove the code from the inviter's active_invites
delete_active(e, inviter, code) ==
    IF inviter # NoInviter
       /\ Has(e.data, Str(inviter))
       /\ Has(e.data[Str(inviter)].active_invites, code)
    THEN WriteInviteData([e EXCEPT !.data[Str(inviter)].active_invites = Del(@, code)])
    ELSE e

\* THIRD: remove the code from the guild cache
delete_cached(e, g, code) ==
    IF Has(e.cache, g) /\ Has(e.cache[g], code)
    THEN [e EXCEPT !.cache[g] = Del(@, code)]
    ELSE e

\* FOURTH: remove the records of the code from the registry; the list
\* comprehension makes a list of whatever invites was
delete_registered(e, code) ==
    LET kept == ListRegistry(RemoveCode(e.invites.items, code))
        removed == [e EXCEPT !.invites = kept]
    IN  IF Len(kept.items) < Len(e.invites.items)
        THEN WriteInvites(removed)
        ELSE removed

\* variant: the registry records go first, the inviter is looked up after
on_invite_delete_registry_first(e, g, code) ==
    LET removed == delete_registered(e, code)
    IN  delete_cached(
            delete_active(removed, registered_inviter(removed.invites.items, code), code),
            g, code)

\* variant: the guild cache is left alone
on_invite_delete_cache_kept(e, g, code) ==
    delete_registered(
        delete_active(e, registered_inviter(e.invites.items, code), code),
        code)

on_invite_delete(e, g, code) ==
    delete_registered(
        delete_cached(
            delete_active(e, registered_inviter(e.invites.items, code), code),
            g, code),
        code)

----------------------------------------------------------------------------
(* on_member_join *)

\* the inner loop (lines 322-326): index of the first saved invite with this
\* code whose inviter guild.get_member finds, 0 if there is none
find_saved(items, code, g) ==
    LET hit(k) == items[k].code = code /\ items[k].inviter_id \in members[g]
    IN  IF \E k \in 1..Len(items) : hit(k)
        THEN CHOOSE k \in 1..Len(items) : hit(k) /\ \A j \in 1..(k - 1) : ~hit(j)
        ELSE 0

\* some ledger already holds this user_id (lines 393-397)
recruited(data, user_id) ==
    \E key \in DOMAIN data :
        \E j \in 1..Len(data[key].recruitment_ledger) :
            data[key].recruitment_ledger[j].user_id = user_id

\* variant: successful_invites is left as it was
count_invite_uncounted(e, inv, inviter) ==
    LET key == Str(inviter)
        d0 == IF Has(e.data, key)
              THEN e.data
              ELSE Put(e.data, key, NewInviterRecord(display[inv.inviter]))
    IN  [e EXCEPT !.data =
            [d0 EXCEPT ![key].active_invites = Put(@, inv.code, Get(@, inv.code, 0) + 1)],
                  !.attributed = Append(@, [code |-> inv.code, inviter |-> inviter])]

\* lines 330-361: get-or-create the inviter's record, count the use
count_invite(e, inv, inviter) ==
    LET key == Str(inviter)
        d0 == IF Has(e.data, key)
              THEN e.data
              ELSE Put(e.data, key, NewInviterRecord(display[inv.inviter]))
    IN  [e EXCEPT !.data =
            [d0 EXCEPT ![key].active_invites = Put(@, inv.code, Get(@, inv.code, 0) + 1),
                       ![key].successful_invites = @ + 1],
                  !.attributed = Append(@, [code |-> inv.code, inviter |-> inviter])]

\* lines 363-381: the milestone notification; delivered tells whether
\* owner.send succeeded
\* variant: every count from the first threshold on is a milestone
is_milestone_from_five(previous_count, new_count) ==
    new_count >= 5 /\ previous_count < new_count

is_milestone(previous_count, new_count) ==
    new_count \in Milestones /\ previous_count < new_count

notify_owner(e, inviter, member, previous_count, delivered) ==
    LET new_count == e.data[Str(inviter)].successful_invites
    IN  IF is_milestone(previous_count, new_count)
        THEN [e EXCEPT !.notices =
                Append(@, [to |-> Owner, inviter |-> inviter, count |-> new_count,
                           recruit |-> member, delivered |-> delivered])]
        ELSE e

\* lines 383-403: the ledger entry, guarded by the system-wide uniqueness check
\* variant: the entry is appended without the uniqueness check
append_recruit_unchecked(e, inviter, member, code) ==
    [e EXCEPT !.data[Str(inviter)].recruitment_ledger =
        Append(@, RecruitedMember(member, code))]

append_recruit(e, inviter, member, code) ==
    IF ~recruited(e.data, Str(member))
    THEN [e EXCEPT !.data[Str(inviter)].recruitment_ledger =
            Append(@, RecruitedMember(member, code))]
    ELSE e

\* lines 409-415: the first saved invite with the code gets one more use
bump_saved_uses(e, code) ==
    LET k == FirstWithCode(e.invites.items, code)
    IN  IF k = 0 THEN e ELSE [e EXCEPT !.invites.items[k].uses = @ + 1]

\* lines 383-423: what runs after the notification
\* variant: the cache keeps the value it had
record_join_cache_kept(e, g, member, inv, inviter) ==
    LET ledgered == WriteInviteData(append_recruit(e, inviter, member, inv.code))
    IN  WriteInvites(bump_saved_uses(ledgered, inv.code))

record_join(e, g, member, inv, inviter) ==
    LET ledgered == WriteInviteData(append_recruit(e, inviter, member, inv.code))
        saved == WriteInvites(bump_saved_uses(ledgered, inv.code))
    IN  [saved EXCEPT !.cache[g] = Put(@, inv.code, inv.uses)]

\* one pass of the loop over current_invites (lines 317-423)
join_invite(e, g, member, inv, delivered) ==
    IF ~Has(e.cache, g)
    THEN [e EXCEPT !.err = "KeyError"]
    ELSE IF ~(Get(e.cache[g], inv.code, 0) < inv.uses)
    THEN e
    ELSE LET k == find_saved(e.invites.items, inv.code, g)
         IN  IF k = 0
             THEN e
             ELSE LET inviter == e.invites.items[k].inviter_id
                      previous_count == Get(e.data, Str(inviter),
                                            NewInviterRecord("")).successful_invites
                      counted == count_invite(e, inv, inviter)
                      notified == notify_owner(counted, inviter, member,
                                               previous_count, delivered)
                  IN  record_join(notified, g, member, inv, inviter)

\* the loop over current_invites: the break at line 423 leaves the inner loop
\* only, so the scan goes on with the next invite
RECURSIVE join_scan(_, _, _, _, _, _)
join_scan(e, g, member, list, i, delivered) ==
    IF i > Len(list) \/ e.err # "none"
    THEN e
    ELSE join_scan(join_invite(e, g, member, list[i], delivered), g, member, list,
                   i + 1, delivered)

\* the same loop, run from invite i up to the next await of owner.send (line
\* 374) or to its end: pc tells which, and inv and inviter are the handler's
\* local variables at the await
RECURSIVE scan_to_send(_, _, _, _, _, _)
scan_to_send(e, g, member, list, i, delivered) ==
    IF i > Len(list) \/ e.err # "none"
    THEN [pc |-> "done", e |-> e, i |-> i, inv |-> InviteEntry("", 0, 0), inviter |-> 0]
    ELSE IF ~Has(e.cache, g)
    THEN scan_to_send([e EXCEPT !.err = "KeyError"], g, member, list, i, delivered)
    ELSE
    LET inv == list[i]
        k == find_saved(e.invites.items, inv.code, g)
    IN  IF ~(Get(e.cache[g], inv.code, 0) < inv.uses) \/ k = 0
        THEN scan_to_send(e, g, member, list, i + 1, delivered)
        ELSE LET inviter == e.invites.items[k].inviter_id
                 previous_count == Get(e.data, Str(inviter),
                                       NewInviterRecord("")).successful_invites
                 counted == count_invite(e, inv, inviter)
             IN  IF is_milestone(previous_count,
                                 counted.data[Str(inviter)].successful_invites)
                 THEN [pc |-> "send",
                       e |-> notify_owner(counted, inviter, member, previous_count,
                                          delivered),
                       i |-> i, inv |-> inv, inviter |-> inviter]
                 ELSE scan_to_send(record_join(counted, g, member, inv, inviter),
                                   g, member, list, i + 1, delivered)

\* fetch1 is the listing validate_invites gets, fetch2 the one fetched at line 315
on_member_join(e, g, member, fetch1, fetch2, delivered) ==
    LET validated == validate_invites(e, fetch1)
    IN  IF validated.err # "none"
        THEN validated
        ELSE IF ~fetch2.ok
        THEN \* only discord.Forbidden is caught (line 425)
             IF fetch2.exc = "Forbidden" THEN validated
             ELSE [validated EXCEPT !.err = fetch2.exc]
        ELSE join_scan(validated, g, member, fetch2.list, 1, delivered)

----------------------------------------------------------------------------
(* InviteManager.ensure_all_display_names, called by /refresh_names *)

\* the tracked users whose stored display name differs from the name of the
\* guild member guild.get_member finds (lines 141-143)
renamed(data, g) ==
    {u \in members[g] : Has(data, Str(u)) /\ display[u] # data[Str(u)].display_name}

ensure_all_display_names(e, g) ==
    LET changed == renamed(e.data, g)
        refreshed == [e EXCEPT !.data =
                        [key \in DOMAIN e.data |->
                            IF \E u \in changed : Str(u) = key
                            THEN [e.data[key] EXCEPT !.display_name =
                                    display[CHOOSE u \in changed : Str(u) = key]]
                            ELSE e.data[key]]]
    IN  IF changed # {} THEN WriteInviteData(refreshed) ELSE e

----------------------------------------------------------------------------
(* Initial states: the bot process has just been constructed.               *)

Names == (1 :> "ann") @@ (2 :> "bob") @@ (3 :> "cy")

\* the invites the platform creates and deletes while the bot runs; the
\* others exist when it starts and stay
Transient == {"X1", "Y1"}

Event(type, g, code, member) ==
    [type |-> type, g |-> g, code |-> code, member |-> member]

\* no suspended handler
NoTask == [pc |-> "none"]
NoTasks == [join |-> NoTask, ready |-> NoTask]

\* no handler has run yet
Idle ==
    [op |-> "none", g |-> 0, member |-> 0, code |-> "", found |-> FALSE,
     listed |-> FALSE, notices |-> << >>, err |-> "none"]

\* stores left by an earlier run.  Inviter 1 counts four successful invites
\* through invite X0, which was deleted while the bot was offline, and has
\* one recruit on record, who left long ago.  Inviter 2 has created invite
\* X2, which nobody has used.
EarlierInviteData ==
    (Str(1) :> [display_name |-> Names[1],
                active_invites |-> ("X0" :> 4),
                successful_invites |-> 4,
                recruitment_ledger |->
                    << [user_id |-> "9", display_name |-> "old",
                        invite_code |-> "X0"] >>])
    @@
    (Str(2) :> [display_name |-> Names[2],
                active_invites |-> ("X2" :> 0),
                successful_invites |-> 0,
                recruitment_ledger |-> << >>])

EarlierInvites == ListRegistry(<< InviteEntry("X2", 2, 0) >>)

\* the bot starts in guilds gs with these stores on disk
InitStores(data, registry, gs) ==
    /\ invite_data = data
    /\ invites = registry
    /\ disk_invite_data = invite_data
    /\ disk_invites = invites
    /\ guild_invite_caches = EmptyDict
    /\ live = ("X2" :> 0)
    /\ gone = {}
    /\ members = [g \in AllGuilds |-> Founders]
    /\ display = Names
    /\ visible = [g \in AllGuilds |-> TRUE]
    /\ guilds = gs
    /\ inbox = << >>
    /\ tasks = NoTasks
    /\ last = Idle

InitWith(gs) == InitStores(EarlierInviteData, EarlierInvites, gs)

Init == InitWith({1})

----------------------------------------------------------------------------
(* Running a handler: the engine takes the handler's result *)

Apply(e) ==
    /\ invite_data' = e.data
    /\ invites' = e.invites
    /\ guild_invite_caches' = e.cache
    /\ disk_invite_data' = e.ddata
    /\ disk_invites' = e.dinvites

\* what a handler execution did: found tells whether it found what it looked
\* for (the code among the inviter's active invites, the code in the
\* registry, an invite to attribute the join to), listed whether
\* validate_invites got the remote list
Ran(op, g, member, code, found, listed, e) ==
    [op |-> op, g |-> g, member |-> member, code |-> code, found |-> found,
     listed |-> listed, notices |-> e.notices, err |-> e.err]

\* the INVITE_CREATE payload: a new invite has no uses
CreatedInvite(c) == [code |-> c, uses |-> 0, inviter |-> InviterOf(c)]

DoReady ==
    \E a1 \in ListingSet(1), b1 \in Listings(1), a2 \in ListingSet(2), b2 \in Listings(2) :
        LET e == on_ready(Engine, (1 :> <<a1, b1>>) @@ (2 :> <<a2, b2>>))
        IN  /\ Apply(e)
            /\ last' = Ran("on_ready", 0, 0, "", FALSE, a1.ok, e)

DoInviteCreate(c) ==
    LET e == on_invite_create(Engine, CreatedInvite(c))
        known == /\ Has(invite_data, Str(InviterOf(c)))
                 /\ Has(invite_data[Str(InviterOf(c))].active_invites, c)
    IN  /\ Apply(e)
        /\ last' = Ran("on_invite_create", GuildOf(c), 0, c, known, FALSE, e)

DoInviteDelete(c) ==
    LET e == on_invite_delete(Engine, GuildOf(c), c)
    IN  /\ Apply(e)
        /\ last' = Ran("on_invite_delete", GuildOf(c), 0, c,
                        c \in CodesOf(invites.items), FALSE, e)

RunMemberJoin(g, m, fetch1, fetch2, delivered) ==
    LET e == on_member_join(Engine, g, m, fetch1, fetch2, delivered)
    IN  /\ Apply(e)
        /\ last' = Ran("on_member_join", g, m, "", e.attributed # << >>, fetch1.ok, e)

DoMemberJoin(g, m) ==
    \E fetch1 \in ListingSet(g), fetch2 \in Listings(g), delivered \in BOOLEAN :
        RunMemberJoin(g, m, fetch1, fetch2, delivered)

----------------------------------------------------------------------------
(* The handlers, each run on an event the platform has produced.  An event *)
(* may reach its handler late, twice, after later events, or never.         *)

Ready ==
    /\ DoReady
    /\ UNCHANGED <<platform, inbox, tasks>>

\* the same event is handled at most twice
InviteCreate(c) ==
    /\ c \in (DOMAIN live) \cup gone
    /\ c \in Transient
    /\ GuildOf(c) \in guilds
    /\ \A j, k \in 1..Len(invites.items) :
            invites.items[j].code = c /\ invites.items[k].code = c => j = k
    /\ DoInviteCreate(c)
    /\ UNCHANGED <<platform, inbox, tasks>>

InviteDelete(c) ==
    /\ c \in gone
    /\ GuildOf(c) \in guilds
    /\ DoInviteDelete(c)
    /\ UNCHANGED <<platform, inbox, tasks>>

MemberJoin(g, m) ==
    /\ g \in guilds
    /\ m \in members[g] \ Founders
    /\ DoMemberJoin(g, m)
    /\ UNCHANGED <<platform, inbox, tasks>>

----------------------------------------------------------------------------
(* The platform *)

\* the gateway sends the event to the bot, or delivery is left to the
\* handler actions above
Emit(deliver, ev) ==
    IF deliver
    THEN Len(inbox) < MaxInbox /\ inbox' = Append(inbox, ev)
    ELSE UNCHANGED inbox

PlatformCreate(c, deliver) ==
    /\ c \in Transient \ ((DOMAIN live) \cup gone)
    /\ GuildOf(c) \in guilds
    /\ live' = Put(live, c, 0)
    /\ Emit(deliver, Event("invite_create", GuildOf(c), c, 0))
    /\ last' = Idle
    /\ UNCHANGED <<engine, gone, members, display, visible, guilds, tasks>>

PlatformDelete(c, deliver) ==
    /\ c \in Transient \cap DOMAIN live
    /\ live' = Del(live, c)
    /\ gone' = gone \cup {c}
    /\ Emit(deliver, Event("invite_delete", GuildOf(c), c, 0))
    /\ last' = Idle
    /\ UNCHANGED <<engine, members, display, visible, guilds, tasks>>

\* user m joins guild g through invite c
PlatformJoin(g, m, c, deliver) ==
    /\ g \in guilds
    /\ m \notin members[g] \cup Founders
    /\ c \in LiveCodes(g)
    /\ live[c] < MaxUses
    /\ live' = [live EXCEPT ![c] = @ + 1]
    /\ members' = [members EXCEPT ![g] = @ \cup {m}]
    /\ Emit(deliver, Event("member_join", g, "", m))
    /\ last' = Idle
    /\ UNCHANGED <<engine, gone, display, visible, guilds, tasks>>

PlatformLeave(g, m) ==
    /\ g \in guilds
    /\ m \in members[g] \ {Owner}
    /\ members' = [members EXCEPT ![g] = @ \ {m}]
    /\ last' = Idle
    /\ UNCHANGED <<engine, live, gone, display, visible, guilds, inbox, tasks>>

Platform(deliver) ==
    \/ \E c \in Codes : PlatformCreate(c, deliver)
    \/ \E c \in Codes : PlatformDelete(c, deliver)
    \/ \E g \in AllGuilds, m \in Users, c \in Codes : PlatformJoin(g, m, c, deliver)
    \/ \E g \in AllGuilds, m \in Users : PlatformLeave(g, m)

----------------------------------------------------------------------------
(* The engine's four operations *)

Next ==
    \/ Ready
    \/ \E c \in Codes : InviteCreate(c)
    \/ \E c \in Codes : InviteDelete(c)
    \/ \E g \in AllGuilds, m \in Users : MemberJoin(g, m)
    \/ Platform(FALSE)

Spec == Init /\ [][Next]_vars

(* The same, with joins whose second listing (line 315) fails with an HTTP  *)
(* error: the handler ends there, with validate_invites done.               *)

MemberJoinCut(g, m) ==
    /\ g \in guilds
    /\ m \in members[g] \ Founders
    /\ \E fetch1 \in ListingSet(g) : RunMemberJoin(g, m, fetch1, Failed, TRUE)
    /\ UNCHANGED <<platform, inbox, tasks>>

NextValidate ==
    \/ Next
    \/ \E g \in AllGuilds, m \in Users : MemberJoinCut(g, m)

SpecValidate == Init /\ [][NextValidate]_vars

(* The same operations from a fresh start: both store files are missing.    *)

InitFresh == InitStores(read_json_file_missing, MissingRegistry, {1})

SpecFresh == InitFresh /\ [][Next]_vars

(* Startup and joins in two guilds, where the bot may lose the permission   *)
(* to list a guild's invites.                                               *)

PlatformRevoke(g) ==
    /\ g \in guilds
    /\ visible[g]
    /\ visible' = [visible EXCEPT ![g] = FALSE]
    /\ last' = Idle
    /\ UNCHANGED <<engine, live, gone, members, display, guilds, inbox, tasks>>

NextForbidden ==
    \/ Ready
    \/ \E g \in AllGuilds, m \in Users : MemberJoin(g, m)
    \/ \E c \in Codes : PlatformCreate(c, FALSE)
    \/ \E g \in AllGuilds, m \in Users, c \in Codes : PlatformJoin(g, m, c, FALSE)
    \/ \E g \in AllGuilds : PlatformRevoke(g)

SpecForbidden == InitWith(AllGuilds) /\ [][NextForbidden]_vars

----------------------------------------------------------------------------
(* The handlers as coroutines: on_ready and on_member_join are suspended at *)
(* their awaits (guild.invites(), owner.send), and whatever else is ready   *)
(* runs meanwhile.  A remote call returns the platform's state at the time  *)
(* the handler resumes.                                                     *)

\* the handler returns
Return(op, t, e) ==
    last' = Ran(op, t.g, t.member, "", e.attributed # << >>, t.listed, e)

\* on_member_join is called and awaits the listing of validate_invites
JoinStart(g, m) ==
    /\ g \in guilds
    /\ m \in members[g] \ Founders
    /\ tasks.join = NoTask
    /\ tasks' = [tasks EXCEPT !.join =
                    [pc |-> "validate", g |-> g, member |-> m, listed |-> FALSE]]
    /\ last' = Idle
    /\ UNCHANGED <<engine, platform, inbox>>

\* line 63 returns: validate_invites runs to its end, line 315 awaits
JoinValidated ==
    /\ tasks.join.pc = "validate"
    /\ \E fetch1 \in ListingSet(tasks.join.g) :
        LET t == [tasks.join EXCEPT !.listed = fetch1.ok]
            e == validate_invites(Engine, fetch1)
        IN  /\ Apply(e)
            /\ IF e.err # "none"
               THEN /\ tasks' = [tasks EXCEPT !.join = NoTask]
                    /\ Return("on_member_join", t, e)
               ELSE /\ tasks' = [tasks EXCEPT !.join = [t EXCEPT !.pc = "list"]]
                    /\ last' = Idle
    /\ UNCHANGED <<platform, inbox>>

\* the scan has reached owner.send, or the end of the handler
JoinScanned(t, list, r) ==
    /\ Apply(r.e)
    /\ IF r.pc = "send"
       THEN /\ tasks' = [tasks EXCEPT !.join =
                    [pc |-> "send", g |-> t.g, member |-> t.member, listed |-> t.listed,
                     list |-> list, i |-> r.i, inv |-> r.inv, inviter |-> r.inviter,
                     attributed |-> r.e.attributed, notices |-> r.e.notices]]
            /\ last' = Idle
       ELSE /\ tasks' = [tasks EXCEPT !.join = NoTask]
            /\ Return("on_member_join", t, r.e)

\* line 315 returns: the scan starts
JoinListed ==
    /\ tasks.join.pc = "list"
    /\ \E fetch2 \in Listings(tasks.join.g), delivered \in BOOLEAN :
        LET t == tasks.join
        IN  IF ~fetch2.ok
            THEN LET e == IF fetch2.exc = "Forbidden" THEN Engine
                          ELSE [Engine EXCEPT !.err = fetch2.exc]
                 IN  /\ Apply(e)
                     /\ tasks' = [tasks EXCEPT !.join = NoTask]
                     /\ Return("on_member_join", t, e)
            ELSE JoinScanned(t, fetch2.list,
                             scan_to_send(Engine, t.g, t.member, fetch2.list, 1, delivered))
    /\ UNCHANGED <<platform, inbox>>

\* owner.send returns or raises (line 374): lines 383-423 run and the scan
\* goes on with the next invite of the list the handler holds
JoinSent ==
    /\ tasks.join.pc = "send"
    /\ \E delivered \in BOOLEAN :
        LET t == tasks.join
            resumed == [Engine EXCEPT !.attributed = t.attributed, !.notices = t.notices]
            recorded == record_join(resumed, t.g, t.member, t.inv, t.inviter)
        IN  JoinScanned(t, t.list,
                        scan_to_send(recorded, t.g, t.member, t.list, t.i + 1, delivered))
    /\ UNCHANGED <<platform, inbox>>

\* initialize_invites is called for guild g: line 82, then the await of line
\* 63; seen is the guild's cache as line 82 found it (observation only)
Initialize(g, todo) ==
    /\ Apply(clear_cache(Engine, g))
    /\ tasks' = [tasks EXCEPT !.ready =
                    [pc |-> "validate", g |-> g, member |-> 0, todo |-> todo,
                     listed |-> FALSE, pruned |-> {},
                     seen |-> Get(guild_invite_caches, g, EmptyDict)]]
    /\ last' = Idle

\* on_ready is called, once, when the bot has connected
ReadyStart ==
    /\ tasks.ready = NoTask
    /\ guild_invite_caches = EmptyDict
    /\ guilds # {}
    /\ LET g == CHOOSE x \in guilds : \A y \in guilds : x <= y
       IN  Initialize(g, guilds \ {g})
    /\ UNCHANGED <<platform, inbox>>

\* line 63 returns: validate_invites runs to its end, line 86 awaits
ReadyValidated ==
    /\ tasks.ready.pc = "validate"
    /\ \E fetch1 \in ListingSet(tasks.ready.g) :
        LET t == [tasks.ready EXCEPT !.listed = fetch1.ok,
                                     !.pruned = ListedCodes(fetch1.list)]
            e == validate_invites(Engine, fetch1)
        IN  /\ Apply(e)
            /\ IF e.err # "none"
               THEN /\ tasks' = [tasks EXCEPT !.ready = NoTask]
                    /\ Return("on_ready", t, e)
               ELSE /\ tasks' = [tasks EXCEPT !.ready = [t EXCEPT !.pc = "list"]]
                    /\ last' = Idle
    /\ UNCHANGED <<platform, inbox>>

\* line 86 returns: the adoption runs to its end; on_ready goes on with the
\* next guild or returns
ReadyListed ==
    /\ tasks.ready.pc = "list"
    /\ \E fetch2 \in Listings(tasks.ready.g) :
        LET t == tasks.ready
            e == adopt_listed(Engine, t.g, fetch2)
        IN  IF t.todo = {}
            THEN /\ Apply(e)
                 /\ tasks' = [tasks EXCEPT !.ready = NoTask]
                 /\ Return("on_ready", t, e)
            ELSE LET g == CHOOSE x \in t.todo : \A y \in t.todo : x <= y
                 IN  /\ Apply(clear_cache(e, g))
                     /\ tasks' = [tasks EXCEPT !.ready =
                            [pc |-> "validate", g |-> g, member |-> 0,
                             todo |-> t.todo \ {g}, listed |-> FALSE, pruned |-> {},
                             seen |-> Get(e.cache, g, EmptyDict)]]
                     /\ last' = Idle
    /\ UNCHANGED <<platform, inbox>>

NextAsync ==
    \/ \E g \in AllGuilds, m \in Users : JoinStart(g, m)
    \/ JoinValidated
    \/ JoinListed
    \/ JoinSent
    \/ ReadyStart
    \/ ReadyValidated
    \/ ReadyListed
    \/ \E c \in Codes : InviteDelete(c)
    \/ Platform(FALSE)

\* a recruit of an earlier run, gone since
Earlier(user_id) == [user_id |-> user_id, display_name |-> "old", invite_code |-> "X0"]

\* stores of an earlier run in which inviter 1 has all four recruits on
\* record and inviter 2 counts four successful invites as well: either
\* inviter's next recruit is a milestone
InitAsync ==
    InitStores([EarlierInviteData EXCEPT
                    ![Str(1)].recruitment_ledger =
                        << Earlier("6"), Earlier("7"), Earlier("8"), Earlier("9") >>,
                    ![Str(2)].successful_invites = 4],
               EarlierInvites, {1})

SpecAsync == InitAsync /\ [][NextAsync]_vars

(* The same, with reconnects: on_ready runs again whenever the gateway      *)
(* session is re-established, also while a join is being handled.           *)

ReadyAgain ==
    /\ tasks.ready = NoTask
    /\ guilds # {}
    /\ \A key \in DOMAIN invite_data :
            invite_data[key].successful_invites < MaxSuccessful
    /\ LET g == CHOOSE x \in guilds : \A y \in guilds : x <= y
       IN  Initialize(g, guilds \ {g})
    /\ UNCHANGED <<platform, inbox>>

NextReconnect ==
    \/ \E g \in AllGuilds, m \in Users : JoinStart(g, m)
    \/ JoinValidated
    \/ JoinListed
    \/ JoinSent
    \/ ReadyAgain
    \/ ReadyValidated
    \/ ReadyListed
    \/ \E g \in AllGuilds, m \in Users, c \in Codes : PlatformJoin(g, m, c, FALSE)
    \/ \E g \in AllGuilds, m \in Users : PlatformLeave(g, m)

SpecReconnect == InitAsync /\ [][NextReconnect]_vars

----------------------------------------------------------------------------
(* Display names.  A user changes the display name on the platform; an      *)
(* administrator runs /refresh_names in a guild.                            *)

\* the name a user changes to
NewNames == (1 :> "anna") @@ (2 :> "bobby") @@ (3 :> "cyd")

PlatformRename(u) ==
    /\ display[u] = Names[u]
    /\ display' = [display EXCEPT ![u] = NewNames[u]]
    /\ last' = Idle
    /\ UNCHANGED <<engine, live, gone, members, visible, guilds, inbox, tasks>>

RefreshNames(g) ==
    /\ g \in guilds
    /\ LET e == ensure_all_display_names(Engine, g)
       IN  /\ Apply(e)
           /\ last' = Ran("refresh_names", g, 0, "", renamed(invite_data, g) # {}, FALSE, e)
    /\ UNCHANGED <<platform, inbox, tasks>>

\* stores of an earlier run in which user 2 was recruited by inviter 1 and
\* created invite X2 afterwards
InitNames ==
    InitStores([EarlierInviteData EXCEPT
                    ![Str(1)].recruitment_ledger =
                        << [user_id |-> Str(2), display_name |-> Names[2],
                            invite_code |-> "X0"] >>],
               EarlierInvites, {1})

NextNames ==
    \/ Ready
    \/ \E g \in AllGuilds, m \in Users : MemberJoin(g, m)
    \/ \E g \in AllGuilds, m \in Users, c \in Codes : PlatformJoin(g, m, c, FALSE)
    \/ \E g \in AllGuilds, m \in Users : PlatformLeave(g, m)
    \/ \E u \in Users : PlatformRename(u)
    \/ \E g \in AllGuilds : RefreshNames(g)

SpecNames == InitNames /\ [][NextNames]_vars

----------------------------------------------------------------------------
(* A guild with a vanity invite, which the guild sets and removes.          *)

Vanity == {"V1"}

VanityCreate(c) ==
    /\ c \in Vanity \ ((DOMAIN live) \cup gone)
    /\ GuildOf(c) \in guilds
    /\ live' = Put(live, c, 0)
    /\ last' = Idle
    /\ UNCHANGED <<engine, gone, members, display, visible, guilds, inbox, tasks>>

VanityDelete(c) ==
    /\ c \in Vanity \cap DOMAIN live
    /\ live' = Del(live, c)
    /\ gone' = gone \cup {c}
    /\ last' = Idle
    /\ UNCHANGED <<engine, members, display, visible, guilds, inbox, tasks>>

NextVanity ==
    \/ Ready
    \/ \E c \in Codes : InviteCreate(c)
    \/ \E c \in Codes : InviteDelete(c)
    \/ \E c \in Codes : PlatformCreate(c, FALSE)
    \/ \E c \in Codes : PlatformDelete(c, FALSE)
    \/ \E c \in Codes : VanityCreate(c)
    \/ \E c \in Codes : VanityDelete(c)

SpecVanity == Init /\ [][NextVanity]_vars

----------------------------------------------------------------------------
(* Event dispatch.  The gateway delivers events in order; the client runs   *)
(* the bot's method named on_<event>, if the bot has one.                   *)

\* the methods of class InviteBot
BotHandlers == {"on_ready", "on_invite_create", "on_invite_delete"}

Listener(type) == "on_" \o type

\* the handler of an event, run on it
Handle(ev) ==
    CASE ev.type = "ready" -> DoReady
      [] ev.type = "invite_create" -> DoInviteCreate(ev.code)
      [] ev.type = "invite_delete" -> DoInviteDelete(ev.code)
      [] ev.type = "member_join" -> DoMemberJoin(ev.g, ev.member)

Dispatch ==
    /\ inbox # << >>
    /\ Listener(Head(inbox).type) \in BotHandlers
    /\ inbox' = Tail(inbox)
    /\ Handle(Head(inbox))
    /\ UNCHANGED <<platform, tasks>>

\* no method of that name: the event is dropped
Unhandled ==
    /\ inbox # << >>
    /\ Listener(Head(inbox).type) \notin BotHandlers
    /\ inbox' = Tail(inbox)
    /\ last' = [Idle EXCEPT !.op = "unhandled", !.g = Head(inbox).g,
                            !.member = Head(inbox).member]
    /\ UNCHANGED <<engine, platform, tasks>>

\* the gateway reports the bot ready: at start, and again after a reconnect
Connect ==
    /\ Emit(TRUE, Event("ready", 0, "", 0))
    /\ last' = Idle
    /\ UNCHANGED <<engine, platform, tasks>>

NextDispatch ==
    \/ Dispatch
    \/ Unhandled
    \/ Connect
    \/ Platform(TRUE)

SpecDispatch == Init /\ [][NextDispatch]_vars

----------------------------------------------------------------------------
(* Reading the tables *)

Successful(data, u) == IF Has(data, Str(u)) THEN data[Str(u)].successful_invites ELSE 0
LedgerOf(data, u) == IF Has(data, Str(u)) THEN data[Str(u)].recruitment_ledger ELSE << >>
ActiveOf(data, u) == IF Has(data, Str(u)) THEN data[Str(u)].active_invites ELSE EmptyDict

RECURSIVE TotalSuccessful(_, _)
TotalSuccessful(data, us) ==
    IF us = {}
    THEN 0
    ELSE LET u == CHOOSE x \in us : TRUE
         IN  Successful(data, u) + TotalSuccessful(data, us \ {u})

\* the entries of all ledgers with this user_id, as (inviter key, position) pairs
EntriesFor(data, user_id) ==
    UNION {{<<key, j>> : j \in {i \in 1..Len(data[key].recruitment_ledger) :
                                 data[key].recruitment_ledger[i].user_id = user_id}} :
           key \in DOMAIN data}

\* the cached uses of a code: a missing entry counts as 0
Cached(cache, g, c) == Get(cache[g], c, 0)

\* this step is an execution of on_member_join
JoinRan == last'.op = "on_member_join"

----------------------------------------------------------------------------
(* C1: no user_id is recorded in more than one RecruitmentEntry, neither in *)
(* two inviters' ledgers nor twice in one ledger, whatever handlers ran.    *)

C1_UniqueRecruit ==
    \A user_id \in {Str(u) : u \in Users} \cup {"9"} :
        Cardinality(EntriesFor(invite_data, user_id)) <= 1

\* joins of member 3 were attributed to inviter 1 through X1 and to inviter 2
\* through X2, and member 3 is recorded once, by inviter 1
C1_Witness ==
    /\ last.op = "on_member_join" /\ last.member = 3 /\ last.found
    /\ Successful(invite_data, 1) = 5
    /\ Successful(invite_data, 2) = 1
    /\ EntriesFor(invite_data, Str(3)) = {<<Str(1), 2>>}
    /\ LedgerOf(invite_data, 2) = << >>

(* C2: every execution of on_member_join that attributes the join to an     *)
(* inviter raises that inviter's successful_invites by exactly 1 and the    *)
(* length of that inviter's recruitment_ledger by exactly 1.                *)

\* the claim as stated
C2_Conservation ==
    [][JoinRan =>
        \A u \in Users :
            Successful(invite_data', u) # Successful(invite_data, u) =>
                /\ Successful(invite_data', u) = Successful(invite_data, u) + 1
                /\ Len(LedgerOf(invite_data', u)) = Len(LedgerOf(invite_data, u)) + 1]_vars

(* C3: if exactly one remote invite X has uses = cached uses + 1, X has an  *)
(* InviteRecord whose inviter is a member, and the joining member is in no  *)
(* ledger, then on_member_join raises the inviter's active_invites[X] and   *)
(* successful_invites by one, sets the cache entry of X to the remote uses, *)
(* appends one RecruitmentEntry (member, X) to the inviter's ledger, and    *)
(* changes no other inviter's record.                                       *)

\* the registry holds a record of code c with inviter u
Registered(c, u) ==
    \E k \in 1..Len(invites.items) :
        invites.items[k].code = c /\ invites.items[k].inviter_id = u

\* the join of member m in guild g is handled, the remote list is readable
\* and member m is in no ledger
C3_JoinOfNewMember(g, m) ==
    /\ JoinRan /\ last'.g = g /\ last'.member = m
    /\ visible[g] /\ Has(guild_invite_caches, g)
    /\ EntriesFor(invite_data, Str(m)) = {}

\* X reports one use more than cached, and its registered inviter u is a member
C3_OneMoreUse(g, X, u) ==
    /\ X \in LiveCodes(g)
    /\ live[X] = Cached(guild_invite_caches, g, X) + 1
    /\ Registered(X, u) /\ u \in members[g]

\* what the handler has to do for inviter u, invite X and member m
C3_Attributed(g, m, X, u) ==
    /\ Has(ActiveOf(invite_data', u), X)
    /\ ActiveOf(invite_data', u)[X] = Get(ActiveOf(invite_data, u), X, 0) + 1
    /\ Successful(invite_data', u) = Successful(invite_data, u) + 1
    /\ Has(guild_invite_caches'[g], X)
    /\ guild_invite_caches'[g][X] = live[X]
    /\ Len(LedgerOf(invite_data', u)) = Len(LedgerOf(invite_data, u)) + 1
    /\ SubSeq(LedgerOf(invite_data', u), 1, Len(LedgerOf(invite_data, u)))
            = LedgerOf(invite_data, u)
    /\ LET entry == LedgerOf(invite_data', u)[Len(LedgerOf(invite_data', u))]
       IN  entry.user_id = Str(m) /\ entry.invite_code = X
    /\ Cardinality(EntriesFor(invite_data', Str(m))) = 1

\* the claim as stated
C3_AsStated ==
    [][\A g \in AllGuilds, m \in Users, X \in Codes, u \in Users :
        (/\ C3_JoinOfNewMember(g, m)
         /\ C3_OneMoreUse(g, X, u)
         /\ \A Y \in LiveCodes(g) \ {X} :
                live[Y] # Cached(guild_invite_caches, g, Y) + 1)
        => /\ C3_Attributed(g, m, X, u)
           /\ \A v \in Users \ {u} :
                /\ Has(invite_data', Str(v)) = Has(invite_data, Str(v))
                /\ Has(invite_data, Str(v)) => invite_data'[Str(v)] = invite_data[Str(v)]]_vars

\* amended: X is the only remote invite with uses above the cached value,
\* and the other inviters' records change only by losing the active_invites
\* entries of codes that are not in the remote list
C3_EndToEnd ==
    [][\A g \in AllGuilds, m \in Users, X \in Codes, u \in Users :
        (/\ C3_JoinOfNewMember(g, m)
         /\ C3_OneMoreUse(g, X, u)
         /\ \A Y \in LiveCodes(g) \ {X} :
                live[Y] <= Cached(guild_invite_caches, g, Y))
        => /\ C3_Attributed(g, m, X, u)
           /\ \A v \in Users \ {u} :
                /\ Has(invite_data', Str(v)) = Has(invite_data, Str(v))
                /\ Has(invite_data, Str(v)) =>
                     invite_data'[Str(v)] =
                        [invite_data[Str(v)] EXCEPT !.active_invites =
                            [c \in (DOMAIN @) \cap LiveCodes(g) |-> @[c]]]]_vars

\* member 3 joined through X1 and is the first recruit inviter 1 gets from it
C3_Witness ==
    /\ last.op = "on_member_join" /\ last.member = 3 /\ last.found
    /\ Successful(invite_data, 1) = 5
    /\ Has(ActiveOf(invite_data, 1), "X1") /\ ActiveOf(invite_data, 1)["X1"] = 1
    /\ Has(live, "X1") /\ live["X1"] = 1
    /\ Has(guild_invite_caches, 1) /\ Has(guild_invite_caches[1], "X1")
    /\ guild_invite_caches[1]["X1"] = 1
    /\ Len(LedgerOf(invite_data, 1)) = 2
    /\ LedgerOf(invite_data, 1)[2].user_id = Str(3)
    /\ LedgerOf(invite_data, 1)[2].invite_code = "X1"
    /\ Successful(invite_data, 2) = 0

(* C4: one execution of on_member_join attributes the join to at most one   *)
(* invite: the sum of successful_invites over all inviters grows by at most *)
(* 1, also when several remote invites show uses above the cached value.    *)

C4_OneInvitePerJoin ==
    [][JoinRan =>
        TotalSuccessful(invite_data', Users) <= TotalSuccessful(invite_data, Users) + 1]_vars

(* C5: a successful attribution sends exactly one milestone notification to *)
(* the owner if the inviter's successful_invites goes from below a          *)
(* threshold to at or above it, and none otherwise; a failed delivery does  *)
(* not stop the rest of the handler (ledger entry, persist, cache update).  *)

\* the notifications about inviter u
NoticesFor(notices, u) == {k \in 1..Len(notices) : notices[k].inviter = u}

\* the thresholds a count going from p to n reaches
Crossed(p, n) == {t \in {5, 10, 15, 20, 25, 30, 50} : p < t /\ t <= n}

C5_Milestone ==
    [][JoinRan =>
        /\ \A u \in Users :
            LET p == Successful(invite_data, u)
                n == Successful(invite_data', u)
            IN  /\ Cardinality(NoticesFor(last'.notices, u)) = Cardinality(Crossed(p, n))
                /\ \A k \in NoticesFor(last'.notices, u) :
                        /\ last'.notices[k].to = Owner
                        /\ last'.notices[k].count = n
                        /\ last'.notices[k].recruit = last'.member
        /\ (\E k \in 1..Len(last'.notices) : ~last'.notices[k].delivered) =>
                /\ last'.err = "none"
                /\ EntriesFor(invite_data', Str(last'.member)) # {}
                /\ disk_invite_data' = invite_data'
                /\ disk_invites' = invites'
                /\ \A c \in LiveCodes(last'.g), u \in members[last'.g] :
                        (Registered(c, u) /\ Cached(guild_invite_caches, last'.g, c) < live[c])
                            => guild_invite_caches'[last'.g][c] = live[c]]_vars

\* the count of inviter 1 reached 5, the notification was not delivered, and
\* the recruit is on record
C5_Witness ==
    /\ last.op = "on_member_join"
    /\ Len(last.notices) = 1
    /\ last.notices[1].count = 5 /\ last.notices[1].inviter = 1
    /\ ~last.notices[1].delivered
    /\ Successful(invite_data, 1) = 5
    /\ EntriesFor(invite_data, Str(last.member)) # {}

(* C6: replaying on_invite_create for a code its inviter already knows      *)
(* leaves the inviter's active_invites as it was and the registry with      *)
(* exactly one InviteRecord of that code.                                   *)

\* the records of code c in a registry
RecordsOf(items, c) == {k \in 1..Len(items) : items[k].code = c}

\* this step is on_invite_create for a code that is among its inviter's
\* active invites and has one InviteRecord
C6_Replay(c) ==
    /\ last'.op = "on_invite_create" /\ last'.code = c /\ last'.found
    /\ last'.err = "none"
    /\ Cardinality(RecordsOf(invites.items, c)) = 1

C6_CreateIdempotent ==
    [][\A c \in Codes :
        C6_Replay(c) =>
            /\ ActiveOf(invite_data', InviterOf(c)) = ActiveOf(invite_data, InviterOf(c))
            /\ Cardinality(RecordsOf(invites'.items, c)) = 1]_vars

(* C7: on_invite_delete for a code with an InviteRecord finds the inviter   *)
(* in the registry before it removes anything: afterwards the code is in    *)
(* neither that inviter's active_invites, nor the guild's cache, nor the    *)
(* registry, and the inviter's successful_invites and recruitment_ledger    *)
(* are as before.                                                           *)

C7_DeleteOrder ==
    [][\A c \in Codes, u \in Users :
        (/\ last'.op = "on_invite_delete" /\ last'.code = c
         /\ Registered(c, u))
        => /\ ~Has(ActiveOf(invite_data', u), c)
           /\ Has(guild_invite_caches', GuildOf(c)) => ~Has(guild_invite_caches'[GuildOf(c)], c)
           /\ RecordsOf(invites'.items, c) = {}
           /\ disk_invites' = invites'
           /\ Has(invite_data', Str(u)) = Has(invite_data, Str(u))
           /\ Successful(invite_data', u) = Successful(invite_data, u)
           /\ LedgerOf(invite_data', u) = LedgerOf(invite_data, u)]_vars

\* X1, through which inviter 1 got a recruit, was deleted and its delete
\* event handled: the record of X1 was found, nothing of X1 is left and the
\* count and the ledger of inviter 1 are kept
C7_Witness ==
    /\ last.op = "on_invite_delete" /\ last.code = "X1" /\ last.found
    /\ ~Has(ActiveOf(invite_data, 1), "X1")
    /\ Has(guild_invite_caches, 1) /\ ~Has(guild_invite_caches[1], "X1")
    /\ RecordsOf(invites.items, "X1") = {}
    /\ Successful(invite_data, 1) = 5
    /\ Len(LedgerOf(invite_data, 1)) = 2
    /\ LedgerOf(invite_data, 1)[2].invite_code = "X1"

(* C8: when the remote list is fetched, validate_invites leaves every       *)
(* inviter's active_invites equal to the previous mapping restricted to the *)
(* listed codes, changes no other field of any InviterRecord, and writes    *)
(* the Inviter Ledger to disk.                                              *)

\* this step is a join that ended right after validate_invites, which got
\* the remote list
ValidateRan ==
    JoinRan /\ last'.listed /\ last'.err = "HTTPException"

C8_Pruning ==
    [][ValidateRan =>
        /\ DOMAIN invite_data' = DOMAIN invite_data
        /\ \A key \in DOMAIN invite_data :
            /\ DOMAIN invite_data'[key].active_invites =
                    (DOMAIN invite_data[key].active_invites) \cap LiveCodes(last'.g)
            /\ \A c \in DOMAIN invite_data'[key].active_invites :
                    invite_data'[key].active_invites[c] = invite_data[key].active_invites[c]
            /\ invite_data'[key].display_name = invite_data[key].display_name
            /\ invite_data'[key].successful_invites = invite_data[key].successful_invites
            /\ invite_data'[key].recruitment_ledger = invite_data[key].recruitment_ledger
        /\ disk_invite_data' = invite_data'
        /\ invites' = invites
        /\ guild_invite_caches' = guild_invite_caches]_vars

\* the first validation since the start: X0, deleted while the bot was
\* offline, is pruned from inviter 1 and X2, still listed, is kept with its
\* count by inviter 2, in memory and on disk
C8_Witness ==
    /\ last.op = "on_member_join" /\ last.listed /\ last.err = "HTTPException"
    /\ guild_invite_caches = EmptyDict
    /\ ActiveOf(invite_data, 1) = EmptyDict
    /\ Successful(invite_data, 1) = 4
    /\ ActiveOf(invite_data, 2) = ("X2" :> 0)
    /\ ActiveOf(disk_invite_data, 1) = EmptyDict
    /\ disk_invite_data = invite_data

(* C9: when a remote invite has uses above the cached value and its         *)
(* registered inviter is not a member, on_member_join changes no            *)
(* InviterRecord for it and still sets the cache entry of the code to the   *)
(* remote uses.                                                             *)

C9_SkipAdvancesCache ==
    [][\A g \in AllGuilds, c \in Codes, u \in Users :
        (/\ JoinRan /\ last'.g = g /\ last'.err = "none"
         /\ visible[g] /\ Has(guild_invite_caches, g)
         /\ c \in LiveCodes(g)
         /\ Cached(guild_invite_caches, g, c) < live[c]
         /\ Registered(c, u) /\ u \notin members[g])
        => /\ Successful(invite_data', u) = Successful(invite_data, u)
           /\ LedgerOf(invite_data', u) = LedgerOf(invite_data, u)
           /\ Has(guild_invite_caches'[g], c)
           /\ guild_invite_caches'[g][c] = live[c]]_vars

(* C10: every member_join event delivered to the bot makes on_member_join   *)
(* run for that member.                                                     *)

C10_JoinConsumed ==
    [][(/\ inbox # << >>
        /\ Head(inbox).type = "member_join"
        /\ inbox' = Tail(inbox))
       => /\ last'.op = "on_member_join"
          /\ last'.member = Head(inbox).member]_vars

(* C11: from empty stores, after every handler execution, each              *)
(* InviterRecord's successful_invites equals the number of entries of its   *)
(* recruitment_ledger.                                                      *)

C11_CountIsLedger ==
    \A key \in DOMAIN invite_data :
        invite_data[key].successful_invites = Len(invite_data[key].recruitment_ledger)

(* C12: in every reachable state, also while a join handler is suspended at *)
(* an await, each InviterRecord's successful_invites is at least the length *)
(* of its recruitment_ledger, and successful_invites never decreases from   *)
(* one state to the next.                                                   *)

CountCoversLedger ==
    \A key \in DOMAIN invite_data :
        invite_data[key].successful_invites >= Len(invite_data[key].recruitment_ledger)

CountKept ==
    \A key \in DOMAIN invite_data :
        /\ key \in DOMAIN invite_data'
        /\ invite_data'[key].successful_invites >= invite_data[key].successful_invites

C12_NeverLess == [](CountCoversLedger) /\ [][CountKept]_vars

\* the join handler of member 3 is suspended at owner.send: inviter 1 counts
\* 5 and has the four ledger entries it started with
C12_Witness ==
    /\ tasks.join.pc = "send" /\ tasks.join.member = 3 /\ tasks.join.inviter = 1
    /\ Successful(invite_data, 1) = 5
    /\ Len(LedgerOf(invite_data, 1)) = 4

(* C13: whenever initialize_invites (on_ready), on_invite_create,           *)
(* on_invite_delete or on_member_join returns, normally or by an exception, *)
(* invite_data.json holds the in-memory invite_data and invites.json holds  *)
(* the records of the in-memory invites.                                    *)

\* this step is the execution of a handler
HandlerRan ==
    last'.op \in {"on_ready", "on_invite_create", "on_invite_delete", "on_member_join"}

C13_Persisted ==
    [][HandlerRan =>
        /\ disk_invite_data' = invite_data'
        /\ disk_invites'.items = invites'.items]_vars

(* C14: after initialize_invites has run for a guild whose remote list is   *)
(* readable, every remote invite has an InviteRecord, its inviter has an    *)
(* InviterRecord (new with count 0 and empty ledger, or with count and      *)
(* ledger as before) and the inviter's active_invites[code] is the remote   *)
(* uses.                                                                    *)

\* this step is on_ready, with the remote list of every guild readable
InitializeRan ==
    last'.op = "on_ready" /\ \A g \in guilds : visible[g]

C14_Adopted ==
    [][InitializeRan =>
        \A g \in guilds : \A c \in LiveCodes(g) :
            LET u == InviterOf(c)
            IN  /\ c \in CodesOf(invites'.items)
                /\ Has(invite_data', Str(u))
                /\ Has(ActiveOf(invite_data', u), c)
                /\ ActiveOf(invite_data', u)[c] = live[c]
                /\ Successful(invite_data', u) = Successful(invite_data, u)
                /\ LedgerOf(invite_data', u) = LedgerOf(invite_data, u)]_vars

(* C15: after initialize_invites has run for a guild, the guild's cache is  *)
(* the mapping code -> uses of one remote list, the list against which      *)
(* active_invites were pruned, also if the remote list changes while        *)
(* initialize_invites is suspended.                                         *)

\* this step ends initialize_invites, which got both listings
InitializeReturned ==
    /\ tasks.ready.pc = "list" /\ tasks.ready.listed
    /\ tasks'.ready = NoTask
    /\ visible[tasks.ready.g]

C15_OneList ==
    [][InitializeReturned =>
        /\ DOMAIN guild_invite_caches'[tasks.ready.g] = tasks.ready.pruned
        /\ \A key \in DOMAIN invite_data' :
            DOMAIN invite_data'[key].active_invites
                \subseteq DOMAIN guild_invite_caches'[tasks.ready.g]]_vars

(* C16: after a reconciliation sweep with a readable remote list (on_ready, *)
(* or the validate step of on_member_join), the Invite Registry holds no    *)
(* InviteRecord whose code is absent from the remote list.                  *)

\* this step is a handler that swept guild 1 with the remote list readable
SweepRan ==
    /\ last'.op \in {"on_ready", "on_member_join"}
    /\ last'.listed
    /\ last'.err = "none"

C16_RegistrySwept ==
    [][SweepRan => CodesOf(invites'.items) \subseteq LiveCodes(1)]_vars

(* C17: while a handler is suspended at a remote call, no other handler     *)
(* changes invite_data, invites or the cache: every handler finds the       *)
(* tables and the cache as the handler before it left them.                 *)

\* a handler is suspended and this step is not one of its own
OtherStep ==
    \/ tasks.join # NoTask /\ tasks'.join = tasks.join
    \/ tasks.ready # NoTask /\ tasks'.ready = tasks.ready

C17_NoInterleaving ==
    [][OtherStep =>
        /\ invite_data' = invite_data
        /\ invites' = invites
        /\ guild_invite_caches' = guild_invite_caches]_vars

(* C18: from a fresh start with both store files missing, the first         *)
(* on_invite_create for an invite with an inviter completes without error   *)
(* and leaves an InviteRecord of the code in the registry; so does the      *)
(* first initialize_invites for the remote invites.                         *)

\* no handler has changed the tables since they were loaded
FreshStores ==
    invite_data = read_json_file_missing /\ invites = MissingRegistry

C18_FreshStart ==
    [][FreshStores =>
        /\ \A c \in Codes :
            (last'.op = "on_invite_create" /\ last'.code = c) =>
                /\ last'.err = "none"
                /\ c \in CodesOf(invites'.items)
        /\ InitializeRan =>
                /\ last'.err = "none"
                /\ \A g \in guilds : LiveCodes(g) \subseteq CodesOf(invites'.items)]_vars

(* C19: if adopting one remote invite raises during initialize_invites, the *)
(* exception is caught and the guild's other remote invites are still       *)
(* cached, and both tables are persisted.                                   *)

\* this step is on_ready on a registry on which adoption raises
AdoptionRaised ==
    /\ InitializeRan
    /\ invites.type # "list"
    /\ \E c \in LiveCodes(1) : c \notin CodesOf(invites.items)

C19_BestEffort ==
    [][AdoptionRaised =>
        /\ last'.err = "none"
        /\ DOMAIN guild_invite_caches'[1] = LiveCodes(1)
        /\ disk_invite_data' = invite_data'
        /\ disk_invites' = invites']_vars

(* C20: when listing a guild's invites fails with a permission error,       *)
(* validate_invites and initialize_invites leave both tables as they were,  *)
(* in memory and on disk, and raise nothing; on_ready goes on with the      *)
(* other guilds; on_member_join changes no table and raises nothing.        *)

TablesKept ==
    /\ invite_data' = invite_data
    /\ invites' = invites
    /\ disk_invite_data' = disk_invite_data
    /\ disk_invites' = disk_invites

C20_PermissionError ==
    [][/\ last'.op = "on_ready" =>
            /\ last'.err = "none"
            /\ (\A g \in guilds : ~visible[g]) => TablesKept
            /\ \A g \in guilds :
                IF visible[g]
                THEN /\ Has(guild_invite_caches', g)
                     /\ DOMAIN guild_invite_caches'[g] = LiveCodes(g)
                     /\ LiveCodes(g) \subseteq CodesOf(invites'.items)
                ELSE /\ Has(guild_invite_caches', g)
                     /\ guild_invite_caches'[g] = EmptyDict
                     /\ \A c \in LiveCodes(g) :
                            c \in CodesOf(invites'.items) => c \in CodesOf(invites.items)
       /\ (last'.op = "on_member_join" /\ ~visible[last'.g]) =>
            /\ last'.err = "none"
            /\ TablesKept
            /\ guild_invite_caches' = guild_invite_caches]_vars

\* on_ready could not list guild 1, where X1 was created, and went on to
\* guild 2, where it adopted Y1
C20_Witness ==
    /\ last.op = "on_ready" /\ last.err = "none"
    /\ ~visible[1] /\ visible[2]
    /\ "X1" \in DOMAIN live /\ "X1" \notin CodesOf(invites.items)
    /\ guild_invite_caches[1] = EmptyDict
    /\ Has(guild_invite_caches[2], "Y1")
    /\ "Y1" \in CodesOf(invites.items)

(* C21: after ensure_all_display_names has run for a guild, every tracked   *)
(* user who is a member and whose display name changed has the new name in  *)
(* the InviterRecord and in every RecruitmentEntry with that user_id, in    *)
(* any ledger, and invite_data.json holds the refreshed invite_data.        *)

\* the display names of the ledger entries of user u
LedgerNames(data, u) ==
    {data[p[1]].recruitment_ledger[p[2]].display_name : p \in EntriesFor(data, Str(u))}

C21_NamesPropagated ==
    [][last'.op = "refresh_names" =>
        \A u \in renamed(invite_data, last'.g) :
            /\ invite_data'[Str(u)].display_name = display[u]
            /\ LedgerNames(invite_data', u) \subseteq {display[u]}
            /\ disk_invite_data' = invite_data']_vars

(* C22: after on_member_join has attributed a join to invite X, the         *)
(* InviteRecord of X has uses equal to the remote uses seen in that join,   *)
(* and so has the cache entry of X, also when more than one use was added   *)
(* or the stored uses were stale.                                           *)

\* this step is a join in guild g that is attributed to invite c of inviter u
AttributedTo(g, c, u) ==
    /\ JoinRan /\ last'.g = g /\ last'.err = "none"
    /\ visible[g] /\ Has(guild_invite_caches, g)
    /\ c \in LiveCodes(g)
    /\ Cached(guild_invite_caches, g, c) < live[c]
    /\ Registered(c, u) /\ u \in members[g]

C22_RecordedUses ==
    [][\A g \in AllGuilds, c \in Codes, u \in Users :
        AttributedTo(g, c, u) =>
            /\ Has(ActiveOf(invite_data', u), c)
            /\ invites'.items[FirstWithCode(invites'.items, c)].uses = live[c]
            /\ Has(guild_invite_caches'[g], c)
            /\ guild_invite_caches'[g][c] = live[c]]_vars

(* C23: on_invite_delete for a code without InviteRecord in the registry    *)
(* changes neither invite_data, nor the registry, nor the guild's cache,    *)
(* and writes nothing.                                                      *)

\* this step is on_invite_delete for code c, which has no InviteRecord
UnregisteredDelete(c) ==
    /\ last'.op = "on_invite_delete" /\ last'.code = c
    /\ c \notin CodesOf(invites.items)

JoinDuringInitialize ==
    /\ tasks.join # NoTask /\ tasks'.join # tasks.join
    /\ tasks.ready # NoTask /\ tasks'.ready = tasks.ready

\* this step counts a use of invite c for inviter u (lines 341-358)
Counted(c, u) ==
    /\ Has(ActiveOf(invite_data', u), c)
    /\ ActiveOf(invite_data', u)[c] = Get(ActiveOf(invite_data, u), c, 0) + 1
    /\ Successful(invite_data', u) > Successful(invite_data, u)

C24_OnlyNewUses ==
    [][\A c \in Codes, u \in Users :
        (JoinDuringInitialize /\ Counted(c, u))
            => live[c] > Get(tasks.ready.seen, c, 0)]_vars

(* C25: once on_invite_delete has completed for a code, the code stays out  *)
(* of the guild's cache, of every active_invites and of the registry until  *)
(* an invite-create event or a remote listing reports it again; a join      *)
(* handler that listed the invites before the deletion and resumes after it *)
(* does not put the code back.                                              *)

\* code c is in no cache, no active_invites and no InviteRecord
Forgotten(data, cache, items, c) ==
    /\ \A g \in DOMAIN cache : ~Has(cache[g], c)
    /\ \A key \in DOMAIN data : ~Has(data[key].active_invites, c)
    /\ c \notin CodesOf(items)

\* a deleted code that is forgotten stays forgotten in every step but the
\* handling of an invite-create event (no listing reports a deleted code)
C25_StaysDeleted ==
    [][\A c \in Codes :
        (/\ c \in gone
         /\ Forgotten(invite_data, guild_invite_caches, invites.items, c)
         /\ last'.op # "on_invite_create")
        => Forgotten(invite_data', guild_invite_caches', invites'.items, c)]_vars

(* C26: with the bot in two guilds, validate_invites for one guild removes  *)
(* from active_invites only codes that are live in no guild; after on_ready *)
(* has initialized every guild, each live invite with an inviter is in its  *)
(* inviter's active_invites.                                                *)

\* the codes in some inviter's active_invites
ActiveCodes(data) == UNION {DOMAIN data[key].active_invites : key \in DOMAIN data}

C26_OtherGuildKept ==
    [][/\ (last'.op \in {"on_ready", "on_member_join"} /\ last'.err = "none") =>
            \A c \in ActiveCodes(invite_data) \cap DOMAIN live :
                c \in ActiveCodes(invite_data')
       /\ InitializeRan =>
            \A c \in DOMAIN live :
                InviterOf(c) # NoInviter => Has(ActiveOf(invite_data', InviterOf(c)), c)]_vars

(* C27: from missing or empty stores, whenever a handler has returned, each *)
(* code in an inviter's active_invites has an InviteRecord in the registry  *)
(* whose inviter_id is that inviter.                                        *)

\* every active code of every inviter is registered for that inviter
ActiveRegistered(data, items) ==
    \A key \in DOMAIN data : \A c \in DOMAIN data[key].active_invites :
        \E k \in 1..Len(items) : items[k].code = c /\ Str(items[k].inviter_id) = key

C27_ActiveIsRegistered ==
    [][HandlerRan => ActiveRegistered(invite_data', invites'.items)]_vars

(* C28: a milestone notification naming inviter I and joining member M is   *)
(* sent only by an execution of on_member_join that also appends a          *)
(* RecruitmentEntry of M to the ledger of I; none is sent for a join whose  *)
(* member is already in some ledger.                                        *)

C28_MilestoneHasEntry ==
    [][JoinRan =>
        \A k \in 1..Len(last'.notices) :
            LET I == last'.notices[k].inviter
                M == last'.notices[k].recruit
            IN  /\ EntriesFor(invite_data, Str(M)) = {}
                /\ Len(LedgerOf(invite_data', I)) = Len(LedgerOf(invite_data, I)) + 1
                /\ LedgerOf(invite_data', I)[Len(LedgerOf(invite_data', I))].user_id = Str(M)]_vars

====
